---- MODULE Spec2Model ----
(***************************************************************************)
(* Model of mcp-stdio-docker-test.                                         *)
(*                                                                         *)
(*   Spec        the server process: cli.main, run_mcp_server and the     *)
(*               tool dispatcher handle_call_tool (src/mcp_stdio_test).    *)
(*   ViewerSpec  the log viewer: main and RequestTracker.process_log      *)
(*               (scripts/view-logs.py).                                   *)
(*                                                                         *)
(* JSON values are tagged records: [t |-> "int", n |-> 3],                 *)
(* [t |-> "str", s |-> "hi"], [t |-> "bool", b |-> TRUE],                  *)
(* [t |-> "obj", o |-> <<<<key, value>>, ...>>], [t |-> "list", l |-> ..]  *)
(* and [t |-> "absent"] for a key that is not in a dict.                   *)
(***************************************************************************)
EXTENDS Integers, Sequences, FiniteSets, TLC

(***************************************************************************)
(* Bounds of the model.                                                    *)
(***************************************************************************)
\* number of log lines one viewer run reads
MaxLines == 4
\* number of tool-call requests one server run receives
MaxCalls == 2
\* largest integer passed as count
MaxCount == 11

(***************************************************************************)
(* JSON values and json.dumps(result, indent=2).                           *)
(***************************************************************************)
Absent == [t |-> "absent"]
JInt(n) == [t |-> "int", n |-> n]
JStr(s) == [t |-> "str", s |-> s]
JBool(b) == [t |-> "bool", b |-> b]
JObj(pairs) == [t |-> "obj", o |-> pairs]
JList(items) == [t |-> "list", l |-> items]

\* the whitespace json.dumps puts in front of a line at nesting depth d
RECURSIVE Indent(_)
Indent(d) == IF d = 0 THEN "" ELSE "  " \o Indent(d - 1)

\* json.dumps(v, indent=2) for a value at nesting depth d
RECURSIVE Dumps(_, _)
RECURSIVE DumpsMembers(_, _, _)
RECURSIVE DumpsItems(_, _, _)
DumpsMembers(pairs, i, d) ==
    IF i > Len(pairs) THEN ""
    ELSE Indent(d) \o "\"" \o pairs[i][1] \o "\": " \o Dumps(pairs[i][2], d)
         \o (IF i < Len(pairs) THEN ",\n" ELSE "\n")
         \o DumpsMembers(pairs, i + 1, d)
DumpsItems(items, i, d) ==
    IF i > Len(items) THEN ""
    ELSE Indent(d) \o Dumps(items[i], d)
         \o (IF i < Len(items) THEN ",\n" ELSE "\n")
         \o DumpsItems(items, i + 1, d)
Dumps(v, d) ==
    CASE v.t = "int" -> ToString(v.n)
      [] v.t = "str" -> "\"" \o v.s \o "\""
      [] v.t = "bool" -> IF v.b THEN "true" ELSE "false"
      [] v.t = "obj" -> IF Len(v.o) = 0 THEN "{}"
                        ELSE "{\n" \o DumpsMembers(v.o, 1, d + 1) \o Indent(d) \o "}"
      [] v.t = "list" -> IF Len(v.l) = 0 THEN "[]"
                         ELSE "[\n" \o DumpsItems(v.l, 1, d + 1) \o Indent(d) \o "]"

(***************************************************************************)
(* Python built-ins used by the dispatcher.                                *)
(***************************************************************************)
\* a raised exception: str(e) is msg
Raise(msg) == [ok |-> FALSE, msg |-> msg]
Value(v) == [ok |-> TRUE, v |-> v]

\* the Python type name that appears in TypeError messages
TypeName(v) == v.t

\* max(a, b) and min(a, b) of Python for an argument a and an int constant b:
\* bool is an int subtype, any other type does not order against int
PyNum(v) == IF v.t = "bool" THEN (IF v.b THEN 1 ELSE 0) ELSE v.n
PyMax(a, b) ==
    IF a.t \in {"int", "bool"}
    THEN Value(IF b > PyNum(a) THEN JInt(b) ELSE a)
    ELSE Raise("'>' not supported between instances of 'int' and '" \o TypeName(a) \o "'")
PyMin(a, b) ==
    IF a.t \in {"int", "bool"}
    THEN Value(IF b < PyNum(a) THEN JInt(b) ELSE a)
    ELSE Raise("'<' not supported between instances of 'int' and '" \o TypeName(a) \o "'")

\* bool(v)
Truthy(v) ==
    CASE v.t = "bool" -> v.b
      [] v.t = "int" -> v.n # 0
      [] v.t = "str" -> v.s # ""
      [] v.t = "obj" -> Len(v.o) # 0
      [] v.t = "list" -> Len(v.l) # 0
      [] OTHER -> FALSE

\* arguments.get(key, default)
Get(arguments, key, default) ==
    IF arguments[key] = Absent THEN default ELSE arguments[key]

(***************************************************************************)
(* State.                                                                  *)
(***************************************************************************)
VARIABLES
    version,          \* mcp_stdio_test.__version__, read once at import
    phase,            \* "boot", "running" or "exited": position of cli.main
    root_level,       \* level of the root logger, 0 until configure_logging
    events,           \* log records emitted by logger calls, in order
    stderr,           \* lines written to sys.stderr
    stdout,           \* lines written to sys.stdout
    requests,         \* tool-call requests dispatched to handle_call_tool
    responses,        \* values returned by handle_call_tool, in order
    pc,               \* "idle", or "sleeping" in await asyncio.sleep(delay)
    cur,              \* index in requests of the call in flight, 0 if none
    exit_code,        \* process exit status, -1 while running
    ended,            \* what ended the session: "", "eof", "interrupt", "exception"
    current_request,  \* RequestTracker.current_request
    input,            \* lines the viewer has read from docker logs
    outputs,          \* per line read, what it made the viewer print
    rendered,         \* lines the viewer has printed, headers excluded
    line_count,       \* main's line_count
    headers,          \* number of print_header calls
    container,        \* the container whose logs are followed, "" if none
    viewer,           \* "boot", "streaming", or how main ended: "nocontainer",
                      \* "crashed", "interrupted", "ended"
    viewer_exit,      \* exit status of the viewer, -1 while running
    error_shown       \* the "No container found" message has been printed

serverVars == <<version, phase, root_level, events, stderr, stdout, requests,
                responses, pc, cur, exit_code, ended>>
viewerVars == <<current_request, input, outputs, rendered, line_count, headers, container,
                viewer, viewer_exit, error_shown>>
vars == <<serverVars, viewerVars>>

(***************************************************************************)
(* logging_config.configure_logging and the logging module.               *)
(***************************************************************************)
\* logging's numeric levels
LevelNo(levelname) ==
    CASE levelname = "DEBUG" -> 10
      [] levelname = "INFO" -> 20
      [] levelname = "WARNING" -> 30
      [] levelname = "ERROR" -> 40
      [] levelname = "CRITICAL" -> 50

\* values of the LOG_LEVEL environment variable, after .upper()
LogLevelEnv == {"INFO", "ERROR", "VERBOSE"}

\* getattr(logging, log_level, logging.INFO)
RootLevel(log_level) ==
    IF log_level \in {"DEBUG", "INFO", "WARNING", "ERROR", "CRITICAL"}
    THEN LevelNo(log_level) ELSE LevelNo("INFO")

\* the stream of the only handler of the root logger
HandlerStreamStdout == "stdout"
HandlerStream == "stderr"

EmptyArgs == [count |-> Absent, include_delay |-> Absent, message |-> Absent]

\* a log record: the message and the extra fields the formatter merges in
Record(levelname, message, tool_name, arguments, error, response_length, response_payload) ==
    [levelname |-> levelname, message |-> message, tool_name |-> tool_name,
     arguments |-> arguments, error |-> error,
     response_length |-> response_length, response_payload |-> response_payload]

Info(message) == Record("INFO", message, "", EmptyArgs, "", -1, "")
\* logger.exception logs at ERROR
Exception(message, tool_name, error) == Record("ERROR", message, tool_name, EmptyArgs, error, -1, "")

\* what the root handler writes to a stream for the records evs, at level lvl
Written(stream, evs, lvl) ==
    IF lvl > 0 /\ HandlerStream = stream
    THEN SelectSeq(evs, LAMBDA r : LevelNo(r.levelname) >= lvl)
    ELSE << >>

LogLine(r) == [kind |-> "log", record |-> r]
Frame(resp) == [kind |-> "frame", response |-> resp]

LogLinesOf(seq) == [i \in 1..Len(seq) |-> LogLine(seq[i])]
FramesOf(seq) == [i \in 1..Len(seq) |-> Frame(seq[i])]

(***************************************************************************)
(* server.py: the tools.                                                   *)
(***************************************************************************)
\* generate_technical_data(): the random fields carry sample values
TechnicalData ==
    JObj(<< <<"request_id", JStr("00000000-0000-4000-8000-000000000000")>>,
            <<"timestamp", JStr("2024-01-01T00:00:00+00:00")>>,
            <<"metrics", JObj(<< <<"memory_total_mb", JInt(32768)>> >>)>>,
            <<"status", JStr("healthy")>> >>)

\* min(max(arguments.get("count", 1), 1), 10)
ClampCountOff(arguments) ==
    LET m == PyMax(Get(arguments, "count", JInt(1)), 1)
    IN  IF m.ok THEN PyMin(m.v, 11) ELSE m
ClampCount(arguments) ==
    LET m == PyMax(Get(arguments, "count", JInt(1)), 1)
    IN  IF m.ok THEN PyMin(m.v, 10) ELSE m

\* lines 183-186: the result of get-random-data for a clamped count
RandomData(count) ==
    IF PyNum(count) = 1
    THEN TechnicalData
    ELSE JObj(<< <<"records", JList([i \in 1..PyNum(count) |-> TechnicalData])>>,
                 <<"count", count>> >>)

\* lines 188-194: echo
Echo(arguments) ==
    LET message == Get(arguments, "message", JStr(""))
    IN  IF message.t = "str"
        THEN Value(JObj(<< <<"echoed_message", message>>,
                           <<"timestamp", JStr("2024-01-01T00:00:00+00:00")>>,
                           <<"message_length", JInt(Len(message.s))>> >>))
        ELSE Raise("object of type '" \o TypeName(message) \o "' has no len()")

\* lines 196-203: server-status
ServerStatusPerCall(v) ==
    JObj(<< <<"server_name", JStr("mcp-stdio-docker-test")>>,
            <<"version", JStr(v \o "+" \o ToString(Len(responses)))>>,
            <<"status", JStr("running")>>,
            <<"timestamp", JStr("2024-01-01T00:00:00+00:00")>>,
            <<"uptime_info", JStr("Server is operational")>> >>)
ServerStatus(v) ==
    JObj(<< <<"server_name", JStr("mcp-stdio-docker-test")>>,
            <<"version", JStr(v)>>,
            <<"status", JStr("running")>>,
            <<"timestamp", JStr("2024-01-01T00:00:00+00:00")>>,
            <<"uptime_info", JStr("Server is operational")>> >>)

(***************************************************************************)
(* scripts/view-logs.py: format_timestamp and RequestTracker.              *)
(***************************************************************************)
Digits == {"0", "1", "2", "3", "4", "5", "6", "7", "8", "9"}
Char(s, i) == SubSeq(s, i, i)

\* "sub in s" for two strings
Contains(s, sub) ==
    \E i \in 1..(Len(s) - Len(sub) + 1) : SubSeq(s, i, i + Len(sub) - 1) = sub

\* datetime.fromisoformat accepts ts: YYYY-MM-DDTHH:MM:SS, with an optional
\* trailing Z that line 36 turns into an offset
IsIsoFormat(ts) ==
    /\ Len(ts) \in {19, 20}
    /\ Len(ts) = 20 => Char(ts, 20) = "Z"
    /\ \A i \in {1, 2, 3, 4, 6, 7, 9, 10, 12, 13, 15, 16, 18, 19} : Char(ts, i) \in Digits
    /\ Char(ts, 5) = "-" /\ Char(ts, 8) = "-"
    /\ Char(ts, 11) \in {"T", " "}
    /\ Char(ts, 14) = ":" /\ Char(ts, 17) = ":"

\* format_timestamp(ts) for a str: %H:%M:%S of the parsed time, else ts[:8]
format_timestamp(ts) ==
    IF IsIsoFormat(ts) THEN SubSeq(ts, 12, 19)
    ELSE SubSeq(ts, 1, IF Len(ts) < 8 THEN Len(ts) ELSE 8)

\* format specs of the f-strings: s:20s, s:25s, n:>6.2f, n:>4d
RECURSIVE PadRight(_, _)
PadRight(s, width) == IF Len(s) >= width THEN s ELSE PadRight(s \o " ", width)
RECURSIVE PadLeft(_, _)
PadLeft(s, width) == IF Len(s) >= width THEN s ELSE PadLeft(" " \o s, width)

\* f"{v}" for a value read by json.loads
Str(v) ==
    CASE v.t = "str" -> v.s
      [] v.t = "int" -> ToString(v.n)
      [] v.t = "bool" -> IF v.b THEN "True" ELSE "False"

\* " ".join(f"{k}={v}" for k, v in args.items())
RECURSIVE JoinItems(_, _)
JoinItems(pairs, i) ==
    IF i > Len(pairs) THEN ""
    ELSE pairs[i][1] \o "=" \o Str(pairs[i][2])
         \o (IF i < Len(pairs) THEN " " ELSE "") \o JoinItems(pairs, i + 1)

\* error[:50]
TruncateNot(error) == error
Truncate(error) == SubSeq(error, 1, IF Len(error) < 50 THEN Len(error) ELSE 50)

\* RequestTracker.__init__: current_request = {}
NoRequest == [empty |-> TRUE]

\* a line returned by process_log, by its formatted columns
Rendered(kind, ts, tool, args_str, duration, size, error) ==
    [kind |-> kind, ts |-> ts, tool |-> tool, args_str |-> args_str,
     duration |-> duration, size |-> size, error |-> error]

\* outcomes of process_log: it raises, or returns out (None or a line) with
\* current_request set to slot
Raised == [raised |-> TRUE]
Returns(slot, out) == [raised |-> FALSE, slot |-> slot, out |-> out]
None == [kind |-> "None"]

\* lines 49-55
OnCalledKeepFirst(cr, log, timestamp) ==
    IF cr = NoRequest
    THEN Returns([empty |-> FALSE, timestamp |-> timestamp,
                  tool |-> Get(log, "tool_name", JStr("?")),
                  args |-> Get(log, "arguments", JObj(<< >>))], None)
    ELSE Returns(cr, None)
OnCalled(cr, log, timestamp) ==
    Returns([empty |-> FALSE, timestamp |-> timestamp,
             tool |-> Get(log, "tool_name", JStr("?")),
             args |-> Get(log, "arguments", JObj(<< >>))], None)

\* lines 57-72
OnCompletedUnguarded(cr, log, timestamp) ==
    IF cr = NoRequest
    THEN Returns(NoRequest, Rendered("success", timestamp, PadRight("?", 20), PadRight("", 25),
                                     "  0.00ms", "   0b", ""))
    ELSE Returns(NoRequest, Rendered("success", cr.timestamp, PadRight(Str(cr.tool), 20),
                                     PadRight("", 25), "  0.00ms", "   0b", ""))
OnCompleted(cr, log, timestamp) ==
    IF cr = NoRequest THEN Returns(cr, None)
    ELSE LET tool == cr.tool
             args == cr.args
             duration == Get(log, "duration_ms", JInt(0))
             size == Get(log, "response_length", JInt(0))
             ts == cr.timestamp
         IN  IF \/ args.t # "obj" /\ Truthy(args)
                \/ tool.t # "str"
                \/ duration.t \notin {"int", "bool"}
                \/ size.t \notin {"int", "bool"}
             THEN Raised
             ELSE Returns(NoRequest,
                          Rendered("success", ts, PadRight(tool.s, 20),
                                   PadRight(IF args.t = "obj" THEN JoinItems(args.o, 1) ELSE "", 25),
                                   PadLeft(ToString(PyNum(duration)) \o ".00", 6) \o "ms",
                                   PadLeft(ToString(PyNum(size)), 4) \o "b", ""))

\* lines 74-80
OnFailedSilent(cr, log, timestamp) == Returns(NoRequest, None)
OnFailedGuarded(cr, log, timestamp) ==
    IF cr = NoRequest THEN Returns(cr, None)
    ELSE Returns(NoRequest, Rendered("failure", cr.timestamp, PadRight(Str(cr.tool), 20),
                                     "", "", "", Truncate(Str(Get(log, "error", JStr(""))))))
OnFailedKeeps(cr, log, timestamp) ==
    Returns(cr, Rendered("failure", timestamp, PadRight("?", 20), "", "", "", ""))
OnFailed(cr, log, timestamp) ==
    LET tool == IF cr = NoRequest THEN Get(log, "tool_name", JStr("?")) ELSE cr.tool
        error == Get(log, "error", JStr(""))
        ts == IF cr = NoRequest THEN timestamp ELSE cr.timestamp
    IN  IF error.t # "str" \/ tool.t # "str"
        THEN Raised
        ELSE Returns(NoRequest,
                     Rendered("failure", ts, PadRight(tool.s, 20), "", "", "", Truncate(error.s)))

\* lines 82-84
Banner(ver) == [kind |-> "banner", version |-> ver]
\* lines 86-87
Stopped == [kind |-> "stopped"]

\* lines 82-84: the banner is returned, current_request is not assigned
OnStartingResets(cr, log) == Returns(NoRequest, Banner(Get(log, "version", JStr("?"))))
OnStarting(cr, log) == Returns(cr, Banner(Get(log, "version", JStr("?"))))

\* RequestTracker.process_log(log) with current_request = cr, for a dict log
process_log(cr, log) ==
    LET message == Get(log, "message", JStr(""))
        asctime == Get(log, "asctime", JStr(""))
    IN  IF asctime.t # "str" \/ message.t # "str" THEN Raised
        ELSE LET timestamp == format_timestamp(asctime.s) IN
             IF Contains(message.s, "MCP tool called")
             THEN OnCalled(cr, log, timestamp)
             ELSE IF Contains(message.s, "MCP tool completed")
             THEN OnCompleted(cr, log, timestamp)
             ELSE IF Contains(message.s, "MCP tool failed")
             THEN OnFailed(cr, log, timestamp)
             ELSE IF \/ Contains(message.s, "Server Starting")
                     \/ Contains(message.s, "MCP server starting")
             THEN OnStarting(cr, log)
             ELSE IF Contains(message.s, "MCP server stopped")
             THEN Returns(cr, Stopped)
             ELSE Returns(cr, None)

(***************************************************************************)
(* scripts/view-logs.py: main.                                             *)
(***************************************************************************)
\* lines of the followed log, after strip(): an empty line, a raw protocol
\* frame, text that is not JSON, or JSON text with its value
Blank == [k |-> "blank"]
JsonRpc == [k |-> "jsonrpc"]
Text == [k |-> "text"]
Json(v) == [k |-> "json", v |-> v]

\* a JSON object with the keys the viewer reads
Log(message, asctime, tool_name, arguments, duration_ms, response_length, error, ver) ==
    [t |-> "dict", message |-> message, asctime |-> asctime, tool_name |-> tool_name,
     arguments |-> arguments, duration_ms |-> duration_ms,
     response_length |-> response_length, error |-> error, version |-> ver]

\* lines 123-137: the body of the loop for one line, with current_request = cr
LoopBody(cr, line) ==
    IF line.k \in {"blank", "jsonrpc"} THEN Returns(cr, None)
    ELSE IF line.k = "text" THEN Returns(cr, None)
    ELSE IF line.v.t # "dict" THEN Raised
    ELSE process_log(cr, line.v)

\* lines 100-116: the container is argv[1], else the first one docker ps names
StartExitZero(argv, names) ==
    /\ viewer = "boot"
    /\ LET found == IF argv # "" THEN argv
                    ELSE IF Len(names) > 0 THEN names[1] ELSE ""
       IN  /\ container' = found
           /\ IF found = ""
              THEN /\ viewer' = "nocontainer"
                   /\ viewer_exit' = 0
                   /\ error_shown' = TRUE
                   /\ headers' = headers
              ELSE /\ viewer' = "streaming"
                   /\ viewer_exit' = viewer_exit
                   /\ error_shown' = error_shown
                   /\ headers' = headers + 1
    /\ UNCHANGED <<current_request, input, outputs, rendered, line_count, serverVars>>
Start(argv, names) ==
    /\ viewer = "boot"
    /\ LET found == IF argv # "" THEN argv
                    ELSE IF Len(names) > 0 THEN names[1] ELSE ""
       IN  /\ container' = found
           /\ IF found = ""
              THEN /\ viewer' = "nocontainer"
                   /\ viewer_exit' = 1
                   /\ error_shown' = TRUE
                   /\ headers' = headers
              ELSE /\ viewer' = "streaming"
                   /\ viewer_exit' = viewer_exit
                   /\ error_shown' = error_shown
                   /\ headers' = headers + 1
    /\ UNCHANGED <<current_request, input, outputs, rendered, line_count, serverVars>>

\* line 134: the header is due after count rendered lines
HeaderDueFirst(count) == count % 20 = 1
HeaderDue(count) == count % 20 = 0

\* lines 122-137: one iteration of the loop over process.stdout
ReadLine(line) ==
    /\ viewer = "streaming"
    /\ Len(input) < MaxLines
    /\ input' = Append(input, line)
    /\ LET r == LoopBody(current_request, line)
       IN  IF r.raised
           THEN /\ viewer' = "crashed"
                /\ viewer_exit' = 1
                /\ outputs' = Append(outputs, None)
                /\ UNCHANGED <<current_request, rendered, line_count, headers>>
           ELSE /\ current_request' = r.slot
                /\ outputs' = Append(outputs, r.out)
                /\ UNCHANGED <<viewer, viewer_exit>>
                /\ IF r.out # None
                   THEN /\ rendered' = Append(rendered, r.out)
                        /\ line_count' = line_count + 1
                        /\ headers' = IF HeaderDue(line_count + 1)
                                      THEN headers + 1 ELSE headers
                   ELSE UNCHANGED <<rendered, line_count, headers>>
    /\ UNCHANGED <<container, error_shown, serverVars>>

\* lines 138-140: KeyboardInterrupt while streaming
ViewerInterrupt ==
    /\ viewer = "streaming"
    /\ viewer' = "interrupted"
    /\ viewer_exit' = 0
    /\ UNCHANGED <<current_request, input, outputs, rendered, line_count, headers,
                   container, error_shown, serverVars>>

\* docker logs ends: the loop is left and main returns
LogsEnd ==
    /\ viewer = "streaming"
    /\ viewer' = "ended"
    /\ viewer_exit' = 0
    /\ UNCHANGED <<current_request, input, outputs, rendered, line_count, headers,
                   container, error_shown, serverVars>>

(***************************************************************************)
(* server.py: handle_call_tool.                                            *)
(***************************************************************************)
\* arguments of a request that carries none
NoneArgs == [t |-> "none"]

\* lines 164-165
Normalize(arguments) == IF arguments = NoneArgs THEN EmptyArgs ELSE arguments

\* lines 174-206: the result of the tool, or the exception it raises
ToolResult(name, arguments, v) ==
    CASE name = "get-random-data" ->
            LET count == ClampCount(arguments)
            IN  IF count.ok THEN Value(RandomData(count.v)) ELSE count
      [] name = "echo" -> Echo(arguments)
      [] name = "server-status" -> Value(ServerStatus(v))
      [] OTHER -> Raise("Unknown tool: " \o name)

\* lines 175-181: the call reaches await asyncio.sleep(delay)
Sleeps(name, arguments) ==
    /\ name = "get-random-data"
    /\ ClampCount(arguments).ok
    /\ Truthy(Get(arguments, "include_delay", JBool(FALSE)))

\* lines 167-171
CalledRecord(name, arguments) ==
    Record("INFO", "MCP tool called", name, arguments, "", -1, "")

\* line 242: the text of the response to a failed call
ErrorTextBare(msg) == msg
ErrorText(msg) == "Error: " \o msg

\* a returned [types.TextContent(type="text", text=text)] for request req;
\* result remembers the value the text was serialised from, and logged the
\* number of log records emitted when the return statement ran
TextContent(req, text, result) ==
    [req |-> req, type |-> "text", text |-> text, result |-> result, logged |-> 0]

\* lines 208-234: log records and return value after the tool succeeded
OnSuccessOutboundFirst(req, name, result) ==
    LET response_json == Dumps(result, 0)
    IN  [records |-> << Record("INFO", "OUTBOUND JSON-RPC RESPONSE", name, EmptyArgs, "",
                               Len(response_json), response_json),
                        Record("INFO", "MCP tool completed", name, EmptyArgs, "",
                               Len(response_json), "") >>,
         returned |-> << TextContent(req, response_json, result) >>]
OnSuccessRecomputed(req, name, result) ==
    LET response_json == Dumps(result, 0)
    IN  [records |-> << Record("INFO", "MCP tool completed", name, EmptyArgs, "",
                               Len(response_json), ""),
                        Record("INFO", "OUTBOUND JSON-RPC RESPONSE", name, EmptyArgs, "",
                               Len(response_json), response_json) >>,
         returned |-> << TextContent(req, Dumps(result, 1), result) >>]
OnSuccess(req, name, result) ==
    LET response_json == Dumps(result, 0)
    IN  [records |-> << Record("INFO", "MCP tool completed", name, EmptyArgs, "",
                               Len(response_json), ""),
                        Record("INFO", "OUTBOUND JSON-RPC RESPONSE", name, EmptyArgs, "",
                               Len(response_json), response_json) >>,
         returned |-> << TextContent(req, response_json, result) >>]

\* lines 236-242: log record and return value after an exception
OnExceptionReraise(req, name, msg) ==
    [records |-> << Exception("MCP tool failed", name, msg) >>,
     returned |-> << >>]
OnException(req, name, msg) ==
    [records |-> << Exception("MCP tool failed", name, msg) >>,
     returned |-> << TextContent(req, ErrorText(msg), Absent) >>]

\* lines 173-242 from the tool's outcome on
Conclude(req, name, outcome) ==
    IF outcome.ok THEN OnSuccess(req, name, outcome.v)
    ELSE OnException(req, name, outcome.msg)

(***************************************************************************)
(* Inputs of the server.                                                   *)
(***************************************************************************)
ToolNames == {"get-random-data", "echo", "server-status", "no-such-tool"}
CountArgs == {Absent, JStr("many")} \cup {JInt(n) : n \in 0..MaxCount}
DelayArgs == {JBool(TRUE), JInt(0)}
DelayedCounts == {JInt(-1), JInt(2)}
MessageArgs == {Absent, JStr("hi"), JInt(5)}
ArgumentsOf(name) ==
    CASE name = "get-random-data" ->
            {[count |-> c, include_delay |-> Absent, message |-> Absent] : c \in CountArgs}
            \cup {[count |-> c, include_delay |-> d, message |-> Absent] :
                    c \in DelayedCounts, d \in DelayArgs}
            \cup {[count |-> JStr("many"), include_delay |-> JBool(TRUE), message |-> Absent]}
      [] name = "echo" ->
            {[count |-> Absent, include_delay |-> Absent, message |-> m] : m \in MessageArgs}
      [] name = "server-status" -> {NoneArgs}
      [] OTHER -> {EmptyArgs}
Versions == {"1.0.0", "unknown"}
TransportErrors == {"Broken pipe"}

(***************************************************************************)
(* The server process.                                                     *)
(***************************************************************************)
\* the records evs are emitted at root level lvl and the responses resps are
\* written as frames
Output(lvl, evs, resps) ==
    LET returned == [i \in 1..Len(resps) |->
                        [resps[i] EXCEPT !.logged = Len(events) + Len(evs)]]
    IN  /\ events' = events \o evs
        /\ stderr' = stderr \o LogLinesOf(Written("stderr", evs, lvl))
        /\ stdout' = stdout \o LogLinesOf(Written("stdout", evs, lvl))
                            \o FramesOf(returned)
        /\ responses' = responses \o returned

\* cli.main up to asyncio.run, and run_mcp_server up to server.run
Main(log_level) ==
    /\ phase = "boot"
    /\ phase' = "running"
    /\ root_level' = RootLevel(log_level)
    /\ Output(RootLevel(log_level), << Info("Starting MCP STDIO Test Server"), Info("MCP server starting") >>, << >>)
    /\ UNCHANGED <<version, requests, pc, cur, exit_code, ended, viewerVars>>

\* handle_call_tool(name, arguments) up to its return or its await
CallTool(name, args) ==
    /\ phase = "running"
    /\ pc = "idle"
    /\ Len(requests) < MaxCalls
    /\ LET arguments == Normalize(args)
           req == Len(requests) + 1
           called == CalledRecord(name, arguments)
       IN  /\ requests' = Append(requests, [name |-> name, arguments |-> args])
           /\ IF Sleeps(name, arguments)
              THEN /\ pc' = "sleeping"
                   /\ cur' = req
                   /\ Output(root_level, << called >>, << >>)
              ELSE LET end == Conclude(req, name, ToolResult(name, arguments, version))
                   IN  /\ Output(root_level, << called >> \o end.records, end.returned)
                       /\ UNCHANGED <<pc, cur>>
    /\ UNCHANGED <<version, phase, root_level, exit_code, ended, viewerVars>>

\* handle_call_tool from the end of asyncio.sleep to its return
DelayElapsed ==
    /\ phase = "running"
    /\ pc = "sleeping"
    /\ LET r == requests[cur]
           end == Conclude(cur, r.name, ToolResult(r.name, Normalize(r.arguments), version))
       IN  Output(root_level, end.records, end.returned)
    /\ pc' = "idle"
    /\ cur' = 0
    /\ UNCHANGED <<version, phase, root_level, requests, exit_code, ended, viewerVars>>

\* run_mcp_server lines 266-267
FinallySkipped == << >>
Finally == << Info("MCP server stopped") >>

\* the input stream closes: server.run returns, main returns
EndOfStream ==
    /\ phase = "running"
    /\ pc = "idle"
    /\ phase' = "exited"
    /\ exit_code' = 0
    /\ ended' = "eof"
    /\ Output(root_level, Finally, << >>)
    /\ UNCHANGED <<version, root_level, requests, pc, cur, viewerVars>>

\* SIGINT: the main task is cancelled, main catches KeyboardInterrupt
Interrupt ==
    /\ phase = "running"
    /\ phase' = "exited"
    /\ exit_code' = 0
    /\ ended' = "interrupt"
    /\ Output(root_level, Finally \o << Info("Received interrupt signal, shutting down...") >>, << >>)
    /\ UNCHANGED <<version, root_level, requests, pc, cur, viewerVars>>

\* the transport raises: run_mcp_server logs and re-raises, main exits 1
TransportFaultSwallowed(msg) ==
    /\ phase = "running"
    /\ phase' = "exited"
    /\ exit_code' = 0
    /\ ended' = "exception"
    /\ Output(root_level, << Exception("MCP server crashed", "", msg) >> \o Finally, << >>)
    /\ UNCHANGED <<version, root_level, requests, pc, cur, viewerVars>>
TransportFault(msg) ==
    /\ phase = "running"
    /\ phase' = "exited"
    /\ exit_code' = 1
    /\ ended' = "exception"
    /\ Output(root_level, << Exception("MCP server crashed", "", msg) >> \o Finally
              \o << Exception("Fatal error in MCP server", "", msg) >>, << >>)
    /\ UNCHANGED <<version, root_level, requests, pc, cur, viewerVars>>

ServerInit ==
    /\ version \in Versions
    /\ phase = "boot"
    /\ root_level = 0
    /\ events = << >>
    /\ stderr = << >>
    /\ stdout = << >>
    /\ requests = << >>
    /\ responses = << >>
    /\ pc = "idle"
    /\ cur = 0
    /\ exit_code = -1
    /\ ended = ""

ViewerInit ==
    /\ current_request = NoRequest
    /\ input = << >>
    /\ outputs = << >>
    /\ rendered = << >>
    /\ line_count = 0
    /\ headers = 0
    /\ container = ""
    /\ viewer = "boot"
    /\ viewer_exit = -1
    /\ error_shown = FALSE

Init == ServerInit /\ ViewerInit

Next ==
    \/ \E log_level \in LogLevelEnv : Main(log_level)
    \/ \E name \in ToolNames : \E args \in ArgumentsOf(name) : CallTool(name, args)
    \/ DelayElapsed
    \/ EndOfStream
    \/ Interrupt
    \/ \E msg \in TransportErrors : TransportFault(msg)

Spec == Init /\ [][Next]_vars

(***************************************************************************)
(* Inputs of the viewer and its specification.                             *)
(***************************************************************************)
Sixty == "0123456789012345678901234567890123456789012345678901234567890"

\* records as the server's formatter writes them
CalledLine(tool_name, arguments, asctime) ==
    Json(Log(JStr("MCP tool called"), JStr(asctime), tool_name, arguments,
             Absent, Absent, Absent, Absent))
CompletedLine(tool_name, duration_ms, response_length, asctime) ==
    Json(Log(JStr("MCP tool completed"), JStr(asctime), JStr(tool_name), Absent,
             duration_ms, response_length, Absent, Absent))
FailedLine(tool_name, error, asctime) ==
    Json(Log(JStr("MCP tool failed"), JStr(asctime), JStr(tool_name), Absent,
             JInt(3), Absent, error, Absent))
OtherLine(message) ==
    Json(Log(message, JStr("2024-01-01T10:00:00"), Absent, Absent, Absent, Absent,
             Absent, JStr("1.0.0")))

LogLines ==
    { CalledLine(JStr("echo"), JObj(<< <<"message", JStr("hi")>> >>), "2024-01-01T10:00:01"),
      CalledLine(JStr("get-random-data"), JObj(<< <<"count", JInt(5)>> >>), "2024-01-01T10:00:02"),
      CompletedLine("echo", JInt(12), JInt(100), "2024-01-01T10:00:03"),
      CompletedLine("echo", JStr("fast"), JInt(100), "2024-01-01T10:00:03"),
      FailedLine("no-such-tool", JStr("boom"), "2024-01-01T10:00:04Z"),
      FailedLine("echo", JStr(Sixty), "not-a-timestamp"),
      OtherLine(JStr("MCP server starting")),
      OtherLine(JStr("MCP server stopped")),
      OtherLine(JStr("OUTBOUND JSON-RPC RESPONSE")),
      Json(JInt(42)),
      Text,
      JsonRpc }

Argv == {"", "mcp-test"}
DockerPs == {<< >>, <<"mcp-test", "mcp-test-2">>}

ViewerNext ==
    \/ \E argv \in Argv : \E names \in DockerPs : Start(argv, names)
    \/ \E line \in LogLines : ReadLine(line)
    \/ ViewerInterrupt
    \/ LogsEnd

\* the server does not run beside the viewer
ViewerSpecInit == ServerInit /\ version = "unknown" /\ ViewerInit

ViewerSpec == ViewerSpecInit /\ [][ViewerNext]_vars

\* The viewer after it has already rendered some lines: the numbers of lines
\* rendered so far that bring the 20th or the 40th line within reach. input,
\* outputs and rendered then hold what was read and printed since.
SeenBefore == {n \in 0..39 : n % 20 >= 16}

HeaderLines ==
    { CalledLine(JStr("echo"), JObj(<< <<"message", JStr("hi")>> >>), "2024-01-01T10:00:01"),
      CompletedLine("echo", JInt(12), JInt(100), "2024-01-01T10:00:03"),
      FailedLine("no-such-tool", JStr("boom"), "2024-01-01T10:00:04Z"),
      OtherLine(JStr("MCP server starting")),
      OtherLine(JStr("OUTBOUND JSON-RPC RESPONSE")),
      Text }

HeaderInit ==
    /\ ServerInit /\ version = "unknown"
    /\ current_request = NoRequest
    /\ input = << >>
    /\ outputs = << >>
    /\ rendered = << >>
    /\ line_count \in SeenBefore
    /\ headers = 1 + line_count \div 20
    /\ container = "mcp-test"
    /\ viewer = "streaming"
    /\ viewer_exit = -1
    /\ error_shown = FALSE

HeaderNext ==
    \/ \E line \in HeaderLines : ReadLine(line)
    \/ ViewerInterrupt
    \/ LogsEnd

HeaderSpec == HeaderInit /\ [][HeaderNext]_vars

(***************************************************************************)
(* Properties of the server.                                               *)
(***************************************************************************)
KnownTools == {"get-random-data", "echo", "server-status"}

\* the requests whose handling has ended with a return: all but the one in
\* flight (or cut short by the end of the process)
Returned == {i \in 1..Len(requests) : i # cur}

\* the log records of call i: from its "MCP tool called" record up to the
\* next one
CalledAt == SelectSeq([k \in 1..Len(events) |-> k],
                      LAMBDA k : events[k].message = "MCP tool called")
ServerStoppedAt == {k \in 1..Len(events) : events[k].message = "MCP server stopped"}
CallRecords(i) ==
    LET first == CalledAt[i]
        limit == IF i < Len(CalledAt) THEN CalledAt[i + 1] - 1 ELSE Len(events)
        last == IF \E k \in ServerStoppedAt : k > first /\ k <= limit
                THEN (CHOOSE k \in ServerStoppedAt : k > first /\ k <= limit) - 1
                ELSE limit
    IN  SubSeq(events, first, last)
CountOf(seq, message) == Cardinality({k \in 1..Len(seq) : seq[k].message = message})

\* C1: every request handled by handle_call_tool has exactly one response,
\* and the responses come in request order: the k-th response answers the
\* k-th request, none is missing and none is doubled.
C1_OneResponsePerRequest ==
    /\ \A i \in Returned : Cardinality({k \in 1..Len(responses) : responses[k].req = i}) = 1
    /\ \A k \in 1..Len(responses) : responses[k].req = k
    /\ Len(responses) = Cardinality(Returned)
    /\ Len(SelectSeq(stdout, LAMBDA l : l.kind = "frame")) = Len(responses)

\* two requests, an unknown tool and a known one, both answered
C1_Witness ==
    /\ Len(requests) >= 2
    /\ Len(responses) = Len(requests)
    /\ requests[1].name = "no-such-tool"
    /\ requests[2].name = "echo"

\* a request that faults: an unregistered name, a count that does not order
\* against an int, a message without a length
IsFault(r) ==
    \/ r.name \notin KnownTools
    \/ r.name = "get-random-data" /\ r.arguments.count.t = "str"
    \/ r.name = "echo" /\ r.arguments.message.t = "int"

\* C2: a faulting call returns the single text block "Error: <message>"
\* ("Error: Unknown tool: <name>" for an unregistered name), emits exactly one
\* "MCP tool failed" record carrying that message and no "MCP tool completed"
\* record, and leaves the session idle and running for the next request.
C2_FaultIsErrorResponse ==
    \A i \in Returned :
        IsFault(requests[i]) =>
            LET recs == CallRecords(i)
                failed == SelectSeq(recs, LAMBDA r : r.message = "MCP tool failed")
            IN  /\ responses[i].type = "text"
                /\ SubSeq(responses[i].text, 1, 7) = "Error: "
                /\ requests[i].name \notin KnownTools =>
                      responses[i].text = "Error: Unknown tool: " \o requests[i].name
                /\ Len(failed) = 1
                /\ failed[1].tool_name = requests[i].name
                /\ responses[i].text = "Error: " \o failed[1].error
                /\ CountOf(recs, "MCP tool completed") = 0
                /\ CountOf(recs, "OUTBOUND JSON-RPC RESPONSE") = 0
                /\ (i = Len(requests) /\ exit_code = -1) => (phase = "running" /\ pc = "idle")
                /\ (i < Len(requests) /\ i + 1 \in Returned /\ ~IsFault(requests[i + 1])) =>
                      /\ responses[i + 1].result # Absent
                      /\ CountOf(CallRecords(i + 1), "MCP tool completed") = 1

\* an unknown tool and a raising known tool have faulted, then a call succeeds
C2_Witness ==
    /\ Len(requests) >= 2
    /\ Len(responses) = Len(requests)
    /\ requests[1].name = "get-random-data" /\ requests[1].arguments.count.t = "str"
    /\ requests[2].name = "server-status"
    /\ responses[2].result # Absent

\* C3: stdout carries only response frames; every log record that passes the
\* root logger's level is a line of stderr, in emission order, and no log
\* record is a line of stdout.
C3_StdoutOnlyFrames ==
    /\ \A k \in 1..Len(stdout) : stdout[k].kind = "frame"
    /\ \A k \in 1..Len(stderr) : stderr[k].kind = "log"
    /\ [k \in 1..Len(stderr) |-> stderr[k].record]
          = SelectSeq(events, LAMBDA r : LevelNo(r.levelname) >= root_level)
    /\ [k \in 1..Len(stdout) |-> stdout[k].response] = responses

\* starting, called, completed, outbound, failed, crashed and stopped have
\* all been logged and a response has been written
C3_Witness ==
    /\ phase = "exited"
    /\ root_level = 20
    /\ Len(stdout) >= 2
    /\ \A m \in {"MCP server starting", "MCP tool called", "MCP tool completed",
                 "OUTBOUND JSON-RPC RESPONSE", "MCP tool failed",
                 "MCP server crashed", "MCP server stopped"} :
          \E k \in 1..Len(stderr) : stderr[k].record.message = m

\* min(max(c, 1), 10), spelled out
Effective(c) == IF c < 1 THEN 1 ELSE IF c > 10 THEN 10 ELSE c

\* C8: for an integer count c (1 when absent) the result of get-random-data
\* is one record when min(max(c, 1), 10) is 1, and otherwise an object whose
\* records list has that many elements and whose count is that number.
C8_CountClamped ==
    \A i \in Returned :
        LET r == requests[i] IN
        (r.name = "get-random-data" /\ r.arguments.count.t \in {"int", "absent"}) =>
            LET n == Effective(IF r.arguments.count.t = "int" THEN r.arguments.count.n ELSE 1)
                result == responses[i].result
            IN  /\ result # Absent
                /\ IF n = 1
                   THEN result = TechnicalData
                   ELSE /\ Len(result.o) = 2
                        /\ result.o[1][1] = "records"
                        /\ result.o[1][2].t = "list"
                        /\ Len(result.o[1][2].l) = n
                        /\ \A k \in 1..n : result.o[1][2].l[k] = TechnicalData
                        /\ result.o[2] = <<"count", JInt(n)>>

\* a count above 10 has been answered with 10 records
C8_Witness ==
    \E i \in Returned :
        /\ requests[i].name = "get-random-data"
        /\ requests[i].arguments.count = JInt(11)
        /\ responses[i].result.t = "obj"
        /\ Len(responses[i].result.o) = 2
        /\ Len(responses[i].result.o[1][2].l) = 10

\* C10: when the process has exited, by end of input, interrupt or transport
\* exception, "MCP server stopped" has been logged exactly once, no tool call
\* was dispatched after it, and it is never logged while the server runs.
C10_StoppedOnceOnExit ==
    /\ phase = "exited" =>
          /\ Cardinality(ServerStoppedAt) = 1
          /\ \A k \in 1..Len(events) : \A j \in ServerStoppedAt :
                k > j => events[k].message \notin
                    {"MCP tool called", "MCP tool completed", "MCP tool failed",
                     "OUTBOUND JSON-RPC RESPONSE"}
    /\ phase # "exited" => ServerStoppedAt = {}

\* the interrupt arrived while a call was suspended in its delay
C10_Witness ==
    /\ phase = "exited"
    /\ pc = "sleeping"
    /\ Cardinality(ServerStoppedAt) = 1

(***************************************************************************)
(* Properties of the viewer.                                               *)
(***************************************************************************)
IsRecord(line) == line.k = "json" /\ line.v.t = "dict"
IsCalled(line) == IsRecord(line) /\ line.v.message = JStr("MCP tool called")
IsCompleted(line) == IsRecord(line) /\ line.v.message = JStr("MCP tool completed")
IsFailed(line) == IsRecord(line) /\ line.v.message = JStr("MCP tool failed")
IsCallEvent(line) == IsCalled(line) \/ IsCompleted(line) \/ IsFailed(line)

\* a call event with the field types the server writes
WellTyped(line) ==
    /\ IsCalled(line) => line.v.tool_name.t = "str" /\ line.v.arguments.t = "obj"
    /\ IsCompleted(line) => line.v.duration_ms.t = "int" /\ line.v.response_length.t = "int"
    /\ IsFailed(line) => line.v.error.t = "str"

\* no call event strictly between positions i and j of the input
Quiet(i, j) == \A m \in (i + 1)..(j - 1) : ~IsCallEvent(input[m])

CallLines == SelectSeq(rendered, LAMBDA r : r.kind \in {"success", "failure"})

\* C4: when every "called" event of the stream is followed by exactly one
\* "completed" or "failed" event before the next "called", the viewer has
\* rendered one call line per ended call, in stream order, labelled with the
\* call's tool name: a success line for "completed", a failure line for
\* "failed".
C4_OneLinePerCall ==
    LET ev == SelectSeq(input, IsCallEvent)
    IN  (/\ \A i \in 1..Len(ev) : WellTyped(ev[i]) /\ (IsCalled(ev[i]) <=> i % 2 = 1))
        => /\ Len(CallLines) = Len(ev) \div 2
           /\ \A j \in 1..Len(CallLines) :
                 /\ CallLines[j].tool = PadRight(ev[2 * j - 1].v.tool_name.s, 20)
                 /\ CallLines[j].kind = IF IsCompleted(ev[2 * j]) THEN "success" ELSE "failure"

\* called(A), completed, called(B), failed("boom") has rendered two lines
C4_Witness ==
    /\ Len(input) = 4
    /\ IsCalled(input[1]) /\ input[1].v.tool_name = JStr("echo")
    /\ IsCompleted(input[2]) /\ WellTyped(input[2])
    /\ IsCalled(input[3]) /\ input[3].v.tool_name = JStr("get-random-data")
    /\ IsFailed(input[4]) /\ input[4].v.error = JStr("boom")
    /\ Len(rendered) = 2
    /\ rendered[1].kind = "success" /\ rendered[2].kind = "failure"

\* C5: a "called" event for B that arrives while a call to A is pending
\* renders nothing, and the next "completed" event renders one success line
\* whose tool label and arguments are B's.
C5_OverwriteKeepsLast ==
    \A i \in 1..Len(input) : \A j \in (i + 1)..Len(input) : \A k \in (j + 1)..Len(input) :
        (/\ IsCalled(input[i]) /\ IsCalled(input[j]) /\ IsCompleted(input[k])
         /\ WellTyped(input[j]) /\ WellTyped(input[k])
         /\ Quiet(i, j) /\ Quiet(j, k))
        => /\ outputs[j] = None
           /\ outputs[k] # None
           /\ outputs[k].kind = "success"
           /\ outputs[k].tool = PadRight(input[j].v.tool_name.s, 20)
           /\ outputs[k].args_str = PadRight(JoinItems(input[j].v.arguments.o, 1), 25)
           /\ \A m \in (i + 1)..(k - 1) : IsCallEvent(input[m]) => outputs[m] = None

\* called(echo), called(get-random-data), completed: the line is for
\* get-random-data count=5
C5_Witness ==
    /\ Len(input) >= 3
    /\ IsCalled(input[1]) /\ input[1].v.tool_name = JStr("echo")
    /\ IsCalled(input[2]) /\ input[2].v.tool_name = JStr("get-random-data")
    /\ IsCompleted(input[3])
    /\ Len(rendered) = 1
    /\ rendered[1].tool = "get-random-data     "
    /\ rendered[1].args_str = "count=5                  "

\* position k holds the end event of a call whose start was overwritten: two
\* "called" events in a row, the end of one call, then this second end event
\* with nothing pending
LateEnd(k) ==
    /\ IsCompleted(input[k]) \/ IsFailed(input[k])
    /\ WellTyped(input[k])
    /\ \E i \in 1..k : \E j \in (i + 1)..k : \E m \in (j + 1)..(k - 1) :
          /\ IsCalled(input[i]) /\ IsCalled(input[j])
          /\ IsCompleted(input[m]) \/ IsFailed(input[m])
          /\ WellTyped(input[j]) /\ WellTyped(input[m])
          /\ Quiet(i, j) /\ Quiet(j, m) /\ Quiet(m, k)

\* C6 as stated: the late end event of the overwritten call still renders a
\* line, with the fallback timestamp (the event's own).
C6_LateEndRenders ==
    \A k \in 1..Len(input) :
        LateEnd(k) =>
            /\ outputs[k] # None
            /\ outputs[k].ts = format_timestamp(input[k].v.asctime.s)

\* C6 amended: the late end event renders nothing when it is "completed";
\* when it is "failed" it renders a failure line with the event's own
\* timestamp and tool_name. The slot stays empty either way.
C6_LateEndRendersOnlyFailed ==
    \A k \in 1..Len(input) :
        LateEnd(k) =>
            /\ IsCompleted(input[k]) => outputs[k] = None
            /\ IsFailed(input[k]) =>
                  /\ outputs[k] # None
                  /\ outputs[k].kind = "failure"
                  /\ outputs[k].ts = format_timestamp(input[k].v.asctime.s)
                  /\ outputs[k].tool = PadRight(input[k].v.tool_name.s, 20)
            /\ k = Len(input) => current_request = NoRequest

\* called, called, completed, then a late "completed" that rendered nothing
C6_Witness ==
    /\ Len(input) = 4
    /\ IsCalled(input[1]) /\ IsCalled(input[2]) /\ IsCompleted(input[3])
    /\ IsCompleted(input[4])
    /\ LateEnd(4)
    /\ Len(rendered) = 1
    /\ outputs[4] = None

\* a line that is not a valid structured record: text that is not JSON, JSON
\* that is not an object, a record with a field of an unexpected type
Invalid(line) ==
    \/ line.k = "text"
    \/ line.k = "json" /\ line.v.t # "dict"
    \/ /\ IsRecord(line)
       /\ \/ line.v.message.t # "str"
          \/ IsCallEvent(line) /\ ~WellTyped(line)

\* C7: reading a line that is not a valid structured record renders nothing,
\* leaves the pending slot unchanged and leaves the viewer streaming.
C7_InvalidLineDropped ==
    [][(Len(input') = Len(input) + 1 /\ Invalid(input'[Len(input')]))
        => (/\ rendered' = rendered
            /\ current_request' = current_request
            /\ viewer' = "streaming")]_vars

(***************************************************************************)
(* Further properties of the server.                                       *)
(***************************************************************************)
At(message) == {k \in 1..Len(events) : events[k].message = message}

\* C11: the exit code is non-zero exactly when a transport exception ended
\* the session, and then "MCP server crashed" was logged before "MCP server
\* stopped"; after end of input or an interrupt the exit code is 0 and no
\* crash record was logged.
C11_ExitCodeIffException ==
    /\ phase = "exited" =>
          /\ exit_code # 0 <=> ended = "exception"
          /\ ended = "exception" =>
                /\ Cardinality(At("MCP server crashed")) = 1
                /\ \A c \in At("MCP server crashed") : \A t \in At("MCP server stopped") : c < t
          /\ ended \in {"eof", "interrupt"} =>
                /\ exit_code = 0
                /\ At("MCP server crashed") = {}
    /\ phase # "exited" => exit_code = -1 /\ At("MCP server crashed") = {}

\* a transport exception ended a session that had answered a request
C11_Witness ==
    /\ phase = "exited"
    /\ ended = "exception"
    /\ exit_code = 1
    /\ Len(responses) >= 1
    /\ At("MCP server crashed") # {}

\* the value of key in a JSON object
Field(obj, key) == (CHOOSE k \in 1..Len(obj.o) : obj.o[k][1] = key)
FieldValue(obj, key) == obj.o[Field(obj, key)][2]

StatusCalls == {i \in Returned : requests[i].name = "server-status"}

\* C13: all server-status calls of one process return the same server_name
\* and the same version (the process's __version__), whatever was called
\* before them.
C13_StatusIsStable ==
    /\ \A i \in StatusCalls :
          /\ responses[i].result # Absent
          /\ FieldValue(responses[i].result, "server_name") = JStr("mcp-stdio-docker-test")
          /\ FieldValue(responses[i].result, "version") = JStr(version)
    /\ \A i \in StatusCalls : \A j \in StatusCalls :
          /\ FieldValue(responses[i].result, "server_name")
                = FieldValue(responses[j].result, "server_name")
          /\ FieldValue(responses[i].result, "version")
                = FieldValue(responses[j].result, "version")

\* server-status has been called as the first and as the last request, with
\* only failed calls in between
C13_Witness ==
    /\ Len(requests) >= 2
    /\ 1 \in StatusCalls
    /\ Len(requests) \in StatusCalls
    /\ \A i \in 2..(Len(requests) - 1) : IsFault(requests[i])
    /\ responses[1].result = responses[Len(requests)].result

DispatcherMessages == {"MCP tool called", "MCP tool completed",
                       "OUTBOUND JSON-RPC RESPONSE", "MCP tool failed"}
Messages(recs) == [k \in 1..Len(recs) |-> recs[k].message]

\* the log records from the "called" record of call i to its return
RecordsOfCall(i) == SubSeq(events, CalledAt[i], responses[i].logged)

\* C14: the records of a call are "MCP tool called", then either "MCP tool
\* completed" and "OUTBOUND JSON-RPC RESPONSE" or one "MCP tool failed",
\* never both kinds; all of them are emitted when the response is returned,
\* and the call emits nothing afterwards.
C14_EventOrder ==
    /\ Len(CalledAt) = Len(requests)
    /\ \A i \in Returned :
          /\ Messages(RecordsOfCall(i)) \in
                { <<"MCP tool called", "MCP tool completed", "OUTBOUND JSON-RPC RESPONSE">>,
                  <<"MCP tool called", "MCP tool failed">> }
          /\ \A k \in 1..Len(RecordsOfCall(i)) :
                RecordsOfCall(i)[k].tool_name = requests[i].name
          /\ \A k \in (responses[i].logged + 1)..Len(events) :
                (events[k].message \in DispatcherMessages) =>
                    (i < Len(requests) /\ k >= CalledAt[i + 1])
    /\ \A i \in 1..Len(requests) : i \notin Returned =>
          \A k \in (CalledAt[i] + 1)..Len(events) :
              events[k].message \notin DispatcherMessages

\* a successful call, delayed by its sleep, and a failed call have returned
C14_Witness ==
    /\ Len(requests) >= 2
    /\ Len(responses) = Len(requests)
    /\ requests[1].name = "get-random-data"
    /\ requests[1].arguments.include_delay = JBool(TRUE)
    /\ Len(RecordsOfCall(1)) = 3
    /\ Len(RecordsOfCall(2)) = 2

\* the calls that returned a serialised result
Succeeded == {i \in Returned : responses[i].result # Absent}

\* C18: on a successful call the returned text is the response_payload of
\* the "OUTBOUND JSON-RPC RESPONSE" record, and the response_length of that
\* record and of the "MCP tool completed" record is the length of the text.
C18_PayloadIsResponse ==
    \A i \in Succeeded :
        LET recs == RecordsOfCall(i)
            completed == SelectSeq(recs, LAMBDA r : r.message = "MCP tool completed")
            outbound == SelectSeq(recs, LAMBDA r : r.message = "OUTBOUND JSON-RPC RESPONSE")
        IN  /\ Len(completed) = 1 /\ Len(outbound) = 1
            /\ outbound[1].response_payload = responses[i].text
            /\ outbound[1].response_length = Len(responses[i].text)
            /\ completed[1].response_length = Len(responses[i].text)
            /\ stdout[i].response.text = responses[i].text

\* echo("hi") has returned its three-member object
C18_Witness ==
    \E i \in Succeeded :
        /\ requests[i].name = "echo"
        /\ requests[i].arguments.message = JStr("hi")
        /\ FieldValue(responses[i].result, "message_length") = JInt(2)
        /\ Len(responses[i].text) > 2
        /\ root_level = 20

(***************************************************************************)
(* Further properties of the viewer.                                       *)
(***************************************************************************)
\* C12: with no container given and none discovered the viewer prints the
\* error and exits with code 1, having printed no header and read no line;
\* with a container, an interrupt while streaming ends it with code 0.
C12_ExitCodes ==
    /\ (viewer # "boot" /\ container = "") =>
          /\ viewer = "nocontainer"
          /\ viewer_exit = 1
          /\ error_shown
          /\ headers = 0
          /\ input = << >>
          /\ rendered = << >>
    /\ (viewer # "boot" /\ container # "") => (headers >= 1 /\ ~error_shown)
    /\ viewer = "interrupted" => (viewer_exit = 0 /\ container # "")

\* discovery found nothing and the viewer has exited
C12_Witness ==
    /\ viewer = "nocontainer"
    /\ container = ""
    /\ viewer_exit = 1

\* C15: while streaming, line_count advances by one exactly for a line that
\* renders something, and the header is printed again exactly when that
\* brings line_count to a multiple of 20.
C15_HeaderEvery20 ==
    [][viewer = "streaming" =>
        /\ line_count' = line_count
              + (IF Len(outputs') > Len(outputs) /\ outputs'[Len(outputs')] # None
                 THEN 1 ELSE 0)
        /\ headers' = headers
              + (IF line_count' # line_count /\ line_count' % 20 = 0 THEN 1 ELSE 0)]_vars

\* the 20th line has been rendered after a line that rendered nothing, and
\* the header has been printed a second time
C15_Witness ==
    /\ line_count = 20
    /\ headers = 2
    /\ Len(rendered) >= 1
    /\ \E k \in 1..Len(outputs) : outputs[k] = None

IsStarting(line) == IsRecord(line) /\ line.v.message = JStr("MCP server starting")
IsServerStopped(line) == IsRecord(line) /\ line.v.message = JStr("MCP server stopped")
IsUnrecognised(line) ==
    /\ IsRecord(line)
    /\ line.v.message.t = "str"
    /\ ~IsCallEvent(line) /\ ~IsStarting(line) /\ ~IsServerStopped(line)

\* the lines process_log has returned from: all but one that made it raise
Handled == {k \in 1..Len(input) : ~(k = Len(input) /\ viewer = "crashed")}

\* the last call event handled before position k, 0 if there is none
LastCallEvent(k) ==
    LET before == {i \in Handled : i < k /\ IsCallEvent(input[i])}
    IN  IF before = {} THEN 0 ELSE CHOOSE i \in before : \A j \in before : j <= i

\* what a "called" line stores in the pending slot
SlotOf(line) ==
    [empty |-> FALSE, timestamp |-> format_timestamp(line.v.asctime.s),
     tool |-> line.v.tool_name, args |-> line.v.arguments]

\* C16: a record that is not a called, completed or failed event leaves the
\* pending slot as it was; an unrecognised one renders nothing and "server
\* starting" renders only its banner, so called(A), such records, completed
\* renders the success line of A.
C16_OtherEventsKeepSlot ==
    /\ \A k \in Handled :
          /\ IsUnrecognised(input[k]) => outputs[k] = None
          /\ IsStarting(input[k]) => outputs[k] = [kind |-> "banner", version |-> input[k].v.version]
    /\ LET i == LastCallEvent(Len(input) + 1)
       IN  IF i # 0 /\ IsCalled(input[i])
           THEN current_request = SlotOf(input[i])
           ELSE current_request = NoRequest
    /\ \A i \in 1..Len(input) : \A k \in (i + 1)..Len(input) :
          (/\ IsCalled(input[i]) /\ IsCompleted(input[k])
           /\ WellTyped(input[i]) /\ WellTyped(input[k])
           /\ Quiet(i, k))
          => /\ outputs[k] # None
             /\ outputs[k].kind = "success"
             /\ outputs[k].tool = PadRight(input[i].v.tool_name.s, 20)
             /\ outputs[k].ts = format_timestamp(input[i].v.asctime.s)

\* called(echo), "server starting", an unrecognised record, completed: the
\* banner and the success line of echo have been rendered
C16_Witness ==
    /\ Len(input) = 4
    /\ IsCalled(input[1]) /\ input[1].v.tool_name = JStr("echo")
    /\ IsStarting(input[2])
    /\ IsUnrecognised(input[3])
    /\ IsCompleted(input[4])
    /\ Len(rendered) = 2
    /\ rendered[1].kind = "banner"
    /\ rendered[2].kind = "success" /\ rendered[2].tool = PadRight("echo", 20)

Min(a, b) == IF a < b THEN a ELSE b

\* C17: a "failed" event that finds a call pending renders one failure line
\* labelled with the pending call's tool, whose error text is the first
\* min(50, length) characters of the event's error, and empties the slot.
C17_FailedLine ==
    \A i \in 1..Len(input) : \A k \in (i + 1)..Len(input) :
        (/\ IsCalled(input[i]) /\ IsFailed(input[k])
         /\ WellTyped(input[i]) /\ WellTyped(input[k])
         /\ Quiet(i, k))
        => /\ outputs[k] # None
           /\ outputs[k].kind = "failure"
           /\ outputs[k].tool = PadRight(input[i].v.tool_name.s, 20)
           /\ Len(outputs[k].error) = Min(50, Len(input[k].v.error.s))
           /\ outputs[k].error = SubSeq(input[k].v.error.s, 1, Len(outputs[k].error))
           /\ k = Len(input) => current_request = NoRequest

\* a call to get-random-data is pending when a "failed" event with a longer
\* error arrives: the line shows 50 characters
C17_Witness ==
    /\ Len(input) >= 2
    /\ IsCalled(input[1]) /\ input[1].v.tool_name = JStr("get-random-data")
    /\ IsFailed(input[2])
    /\ Len(input[2].v.error.s) > 50
    /\ outputs[2] # None
    /\ outputs[2].tool = PadRight("get-random-data", 20)
    /\ Len(outputs[2].error) = 50

\* C19: the pending slot is non-empty exactly when the most recent called,
\* completed or failed event process_log has handled is a "called" event; in
\* particular it is empty after any "completed" or "failed" event.
C19_SlotFollowsLastEvent ==
    LET i == LastCallEvent(Len(input) + 1)
    IN  /\ (current_request # NoRequest) <=> (i # 0 /\ IsCalled(input[i]))
        /\ (current_request # NoRequest) => ~current_request.empty

\* a "completed" and a "failed" event arrived with nothing pending, after a
\* call that was pending had ended
C19_Witness ==
    /\ Len(input) = 4
    /\ IsCalled(input[1])
    /\ IsFailed(input[2])
    /\ IsCompleted(input[3])
    /\ IsFailed(input[4])
    /\ viewer = "streaming"
    /\ current_request = NoRequest

SuccessLines == SelectSeq(rendered, LAMBDA r : r.kind = "success")

\* C20: there are never more success lines than "called" events read, while
\* every "failed" event renders a failure line, which with nothing pending
\* carries the event's own tool_name and timestamp.
C20_SuccessNeedsCalled ==
    /\ Len(SuccessLines) <= Len(SelectSeq(input, IsCalled))
    /\ \A k \in Handled :
          (IsFailed(input[k]) /\ WellTyped(input[k])) =>
              /\ outputs[k] # None
              /\ outputs[k].kind = "failure"
              /\ LET i == LastCallEvent(k)
                 IN  (i = 0 \/ ~IsCalled(input[i])) =>
                        /\ outputs[k].tool = PadRight(input[k].v.tool_name.s, 20)
                        /\ outputs[k].ts = format_timestamp(input[k].v.asctime.s)

\* "completed" with nothing pending rendered nothing, "failed" with nothing
\* pending rendered a line with its own tool_name and its raw timestamp
C20_Witness ==
    /\ Len(input) >= 2
    /\ IsCompleted(input[1]) /\ outputs[1] = None
    /\ IsFailed(input[2])
    /\ outputs[2] # None
    /\ outputs[2].tool = PadRight("echo", 20)
    /\ outputs[2].ts = "not-a-ti"

====
